---------------------------- MODULE Spec2Model ----------------------------
(***************************************************************************)
(* Dictionary-driven span annotator (anotaciones/annotate_doccano_v2.py    *)
(* and its near-duplicate "annotate_doccano_v2 copy.py").                  *)
(*                                                                         *)
(* A string is a sequence of one-character strings.  Spans are the code's  *)
(* 0-based half-open intervals <<start, end>> over the text, so the span   *)
(* <<s, e>> covers the elements s+1 .. e of the sequence.                  *)
(***************************************************************************)
EXTENDS Integers, Sequences, FiniteSets

(***************************************************************************)
(* Characters                                                              *)
(***************************************************************************)

\* str.lower() on the alphabet of the model (ASCII letters).
LowerChar(c) ==
    CASE c = "A" -> "a"
      [] c = "I" -> "i"
      [] c = "L" -> "l"
      [] c = "N" -> "n"
      [] c = "O" -> "o"
      [] OTHER   -> c

UpperLetters == {"A", "I", "L", "N", "O"}

LowerLetters ==
    {"a", "b", "c", "d", "e", "f", "g", "h", "i", "l", "m", "n", "o",
     "p", "r", "s", "t", "u", "y", "z"}

\* The regular expression class \w (letters, digits, underscore).
Digits == {"1", "2"}

IsWordChar(c) == c \in LowerLetters \cup UpperLetters \cup Digits \cup {"_"}

\* The regular expression class \s.
IsSpace(c) == c \in {" ", "TAB", "NBSP"}

\* The class [\w\-] of the tokenizer.
IsTokenChar(c) == IsWordChar(c) \/ c = "-"

(***************************************************************************)
(* Strings                                                                 *)
(***************************************************************************)

lower(w) == [i \in 1..Len(w) |-> LowerChar(w[i])]

\* w[a:b] of Python, 0-based and half-open.
Slice(w, a, b) == IF b <= a THEN << >> ELSE SubSeq(w, a + 1, b)

endswith(w, suf) ==
    /\ Len(suf) <= Len(w)
    /\ Slice(w, Len(w) - Len(suf), Len(w)) = suf

\* Whether sub occurs in w at the 0-based position p.
OccursAt(w, sub, p) ==
    /\ p >= 0
    /\ p + Len(sub) <= Len(w)
    /\ Slice(w, p, p + Len(sub)) = sub

\* str.find: the lowest 0-based index of sub in w, or -1.
find(w, sub) ==
    LET hits == {p \in 0..Len(w) : OccursAt(w, sub, p)}
    IN  IF hits = {} THEN -1
        ELSE CHOOSE p \in hits : \A q \in hits : p <= q

\* " ".join(words)
RECURSIVE JoinWords(_)
JoinWords(ws) ==
    IF ws = << >> THEN << >>
    ELSE IF Len(ws) = 1 THEN ws[1]
    ELSE ws[1] \o <<" ">> \o JoinWords(Tail(ws))

\* str.split(): the maximal runs of non-whitespace characters.
RECURSIVE SplitFrom(_, _, _)
SplitFrom(w, i, cur) ==
    IF i > Len(w) THEN (IF cur = << >> THEN << >> ELSE <<cur>>)
    ELSE IF IsSpace(w[i])
         THEN (IF cur = << >> THEN << >> ELSE <<cur>>) \o SplitFrom(w, i + 1, << >>)
         ELSE SplitFrom(w, i + 1, Append(cur, w[i]))

split(w) == SplitFrom(w, 1, << >>)

(***************************************************************************)
(* Normalisation and lightweight lemmatisation                             *)
(***************************************************************************)

\* normalize_text_for_matching: NFKD, drop combining marks, lower-case.  On
\* the ASCII alphabet of the model NFKD changes nothing and no character is
\* a combining mark, so what is left is the case folding.
normalize_text_for_matching(text) == lower(text)

suf_list ==
    << <<"i","n","g">>, <<"e","d">>, <<"e","s">>, <<"s">>, <<"i","o","n">>,
       <<"a","t","i","o","n">>, <<"m","e","n","t">>,
       <<"a","b","i","l","i","t","y">>, <<"i","z","a","t","i","o","n">> >>

\* The guard read as a bound on the root: the root has to be longer than
\* the suffix by more than 2 characters.
SuffixApplies_root_guard(w, suf) ==
    endswith(w, suf) /\ Len(w) - Len(suf) > Len(suf) + 2

\* The guard of the suffix loop, on the lower-cased word w.
SuffixApplies(w, suf) == endswith(w, suf) /\ Len(w) > Len(suf) + 2

\* The for loop over suf_list, from index i on.
RECURSIVE LemmaLoop(_, _)
LemmaLoop(w, i) ==
    IF i > Len(suf_list) THEN w
    ELSE IF SuffixApplies(w, suf_list[i])
         THEN Slice(w, 0, Len(w) - Len(suf_list[i]))
         ELSE LemmaLoop(w, i + 1)

lightweight_lemma(word) == LemmaLoop(lower(word), 1)

(***************************************************************************)
(* Tokenizer: re.findall(r"\b[\w\-]+\b", text) and dict.fromkeys           *)
(***************************************************************************)

\* \b at the 0-based position p: exactly one side is a word character.
WordBoundary(text, p) ==
    LET before == p >= 1 /\ IsWordChar(text[p])
        after  == p < Len(text) /\ IsWordChar(text[p + 1])
    IN  before # after

\* The end of the maximal run of [\w\-] characters that starts at p.
RECURSIVE RunEnd(_, _)
RunEnd(text, p) ==
    IF p < Len(text) /\ IsTokenChar(text[p + 1]) THEN RunEnd(text, p + 1) ELSE p

\* findall(r"\b[\w\-]{minlen,}\b") from position p on: the greedy run is
\* given back character by character until it ends at a word boundary.
RECURSIVE FindWords(_, _, _)
FindWords(text, p, minlen) ==
    IF p >= Len(text) THEN << >>
    ELSE LET ends == {e \in (p + minlen)..RunEnd(text, p) : WordBoundary(text, e)}
             last == CHOOSE e \in ends : \A f \in ends : f <= e
         IN  IF WordBoundary(text, p) /\ ends # {}
             THEN <<Slice(text, p, last)>> \o FindWords(text, last, minlen)
             ELSE FindWords(text, p + 1, minlen)

\* list(dict.fromkeys(words)): the distinct words in first-occurrence order.
RECURSIVE Unique(_, _)
Unique(ws, seen) ==
    IF ws = << >> THEN << >>
    ELSE IF ws[1] \in seen THEN Unique(Tail(ws), seen)
    ELSE <<ws[1]>> \o Unique(Tail(ws), seen \cup {ws[1]})

\* The {3,} of the copy variant's tokenizer; the v2 tokenizer uses +.
MIN_WORD_LEN_COPY == 3

words_unique_of(v, text) ==
    Unique(FindWords(text, 0, IF v = "copy" THEN MIN_WORD_LEN_COPY ELSE 1), {})

(***************************************************************************)
(* Patterns: (?<!\w)(alt1|alt2)(?:s|es|...)?(?!\w), IGNORECASE             *)
(* An alternative is a sequence of atoms: a literal character, or WS for   *)
(* the \s+ that build_flexible_pattern of v2 puts between two words.       *)
(***************************************************************************)

WS == "\\s+"

\* The suffix group of the pattern, in the order the regex tries it.
PATTERN_SUFFIXES ==
    << <<"s">>, <<"e","s">>, <<"i","n","g">>, <<"e","d">>, <<"i","o","n">>,
       <<"a","t","i","o","n">>, <<"m","e","n","t">>,
       <<"a","b","i","l","i","t","y">>, <<"i","z","a","t","i","o","n">> >>

EXCLUDE_SUFFIX_TERMS ==
    { <<"n","o","t","e">>, <<"t","e","x","t">>, <<"d","a","t","a">>,
      <<"i","n","f","o">>, <<"s","e","c","t","i","o","n">> }

\* len(term) < 6 of build_flexible_pattern in v2: shorter terms get no suffix group.
SUFFIX_MIN_TERM_LEN == 6

\* r'\s+'.join(escaped_words)
RECURSIVE JoinWS(_)
JoinWS(ws) ==
    IF ws = << >> THEN << >>
    ELSE IF Len(ws) = 1 THEN ws[1]
    ELSE ws[1] \o <<WS>> \o JoinWS(Tail(ws))

\* build_flexible_pattern of annotate_doccano_v2.py.
build_flexible_pattern_v2(term) ==
    LET words == split(term)
        escaped_words == [i \in 1..Len(words) |-> lightweight_lemma(words[i])]
    IN  [alts |-> <<JoinWS(escaped_words)>>,
         suffix |-> ~(Len(term) < SUFFIX_MIN_TERM_LEN)]

\* The build_flexible_pattern that is in force when the copy variant builds
\* PRECOMPILED (the first definition; the second one, which returns None
\* for terms under 3 characters, is defined after PRECOMPILED is built).
build_flexible_pattern_copy(term) ==
    [alts |-> <<term, lightweight_lemma(term)>>,
     suffix |-> ~(lower(term) \in EXCLUDE_SUFFIX_TERMS)]

build_flexible_pattern(v, term) ==
    IF v = "copy" THEN build_flexible_pattern_copy(term)
    ELSE build_flexible_pattern_v2(term)

\* The number of whitespace characters from position p on.
RECURSIVE SpacesFrom(_, _)
SpacesFrom(text, p) ==
    IF p < Len(text) /\ IsSpace(text[p + 1]) THEN 1 + SpacesFrom(text, p + 1) ELSE 0

\* The end of the match of atoms[k..] at position p, or -1.
RECURSIVE MatchAtoms(_, _, _, _)
MatchAtoms(atoms, k, text, p) ==
    IF k > Len(atoms) THEN p
    ELSE IF atoms[k] = WS
         THEN LET n == SpacesFrom(text, p)
              IN  IF n = 0 THEN -1 ELSE MatchAtoms(atoms, k + 1, text, p + n)
         ELSE IF p < Len(text) /\ LowerChar(text[p + 1]) = LowerChar(atoms[k])
              THEN MatchAtoms(atoms, k + 1, text, p + 1)
              ELSE -1

\* (?!\w) at position p.
NoWordAhead(text, p) == ~(p < Len(text) /\ IsWordChar(text[p + 1]))

\* (?<!\w) at position p.
NoWordBehind(text, p) == ~(p >= 1 /\ IsWordChar(text[p]))

\* (?:s|es|...)?(?!\w) at position e: the suffixes in order, then none.
RECURSIVE MatchSuffix(_, _, _)
MatchSuffix(text, e, i) ==
    IF i > Len(PATTERN_SUFFIXES)
    THEN (IF NoWordAhead(text, e) THEN e ELSE -1)
    ELSE LET f == MatchAtoms(PATTERN_SUFFIXES[i], 1, text, e)
         IN  IF f # -1 /\ NoWordAhead(text, f) THEN f
             ELSE MatchSuffix(text, e, i + 1)

\* The alternatives in order, each followed by the rest of the pattern.
RECURSIVE MatchAlts(_, _, _, _)
MatchAlts(pattern, a, text, p) ==
    IF a > Len(pattern.alts) THEN -1
    ELSE LET e == MatchAtoms(pattern.alts[a], 1, text, p)
             f == IF e = -1 THEN -1
                  ELSE IF pattern.suffix THEN MatchSuffix(text, e, 1)
                  ELSE IF NoWordAhead(text, e) THEN e ELSE -1
         IN  IF f # -1 THEN f ELSE MatchAlts(pattern, a + 1, text, p)

\* The end of the pattern's match that starts at position p, or -1.
MatchAt(pattern, text, p) ==
    IF NoWordBehind(text, p) THEN MatchAlts(pattern, 1, text, p) ELSE -1

\* pattern.finditer(text): the non-overlapping matches, left to right.
RECURSIVE finditer(_, _, _)
finditer(pattern, text, p) ==
    IF p >= Len(text) THEN << >>
    ELSE LET e == MatchAt(pattern, text, p)
         IN  IF e > p THEN << <<p, e>> >> \o finditer(pattern, text, e)
             ELSE finditer(pattern, text, p + 1)

(***************************************************************************)
(* Similarity scores, 0..100.  Both are quotients 200*M/T of integers and  *)
(* are only ever compared with the integer threshold, so the integer part  *)
(* of the quotient decides the comparison exactly as the float does.       *)
(***************************************************************************)

\* A common block a[i:i+k] = b[j:j+k]: the longest k for given i, j.
RECURSIVE CommonRun(_, _, _, _, _, _)
CommonRun(a, b, i, j, ahi, bhi) ==
    IF i < ahi /\ j < bhi /\ a[i + 1] = b[j + 1]
    THEN 1 + CommonRun(a, b, i + 1, j + 1, ahi, bhi)
    ELSE 0

\* SequenceMatcher.find_longest_match(alo, ahi, blo, bhi) without junk: the
\* longest common block; of those the one starting earliest in a, and of
\* those the one starting earliest in b.
find_longest_match(a, b, alo, ahi, blo, bhi) ==
    LET cands == {<<i, j, CommonRun(a, b, i, j, ahi, bhi)>> :
                      i \in alo..(ahi - 1), j \in blo..(bhi - 1)}
        Better(c, d) ==
            \/ c[3] > d[3]
            \/ c[3] = d[3] /\ c[1] < d[1]
            \/ c[3] = d[3] /\ c[1] = d[1] /\ c[2] <= d[2]
    IN  IF cands = {} THEN <<alo, blo, 0>>
        ELSE CHOOSE c \in cands : \A d \in cands : Better(c, d)

\* The total size of SequenceMatcher.get_matching_blocks(): the longest
\* block, then recursively the pieces to its left and to its right.
RECURSIVE MatchingSize(_, _, _, _, _, _)
MatchingSize(a, b, alo, ahi, blo, bhi) ==
    LET m == find_longest_match(a, b, alo, ahi, blo, bhi)
    IN  IF m[3] = 0 THEN 0
        ELSE m[3]
             + MatchingSize(a, b, alo, m[1], blo, m[2])
             + MatchingSize(a, b, m[1] + m[3], ahi, m[2] + m[3], bhi)

\* fuzzy_similarity: difflib.SequenceMatcher(None, a, b).ratio() * 100.
fuzzy_similarity(a, b) ==
    IF Len(a) + Len(b) = 0 THEN 100
    ELSE (200 * MatchingSize(a, b, 0, Len(a), 0, Len(b))) \div (Len(a) + Len(b))

\* One row of the longest-common-subsequence table: row[j + 1] is the LCS
\* length of a[:i] and b[:j].
RECURSIVE LcsRow(_, _, _, _, _)
LcsRow(a, b, i, prev, cur) ==
    LET j == Len(cur)
    IN  IF j > Len(b) THEN cur
        ELSE LcsRow(a, b, i, prev,
                    Append(cur, IF a[i] = b[j] THEN prev[j] + 1
                                ELSE IF prev[j + 1] >= cur[j] THEN prev[j + 1]
                                ELSE cur[j]))

RECURSIVE LcsRows(_, _, _, _)
LcsRows(a, b, i, prev) ==
    IF i > Len(a) THEN prev[Len(b) + 1]
    ELSE LcsRows(a, b, i + 1, LcsRow(a, b, i, prev, <<0>>))

LcsLength(a, b) == LcsRows(a, b, 1, [j \in 1..(Len(b) + 1) |-> 0])

\* rapidfuzz fuzz.ratio: the normalized Indel similarity,
\* 100 * (1 - (len(a) + len(b) - 2*LCS) / (len(a) + len(b))).
fuzz_ratio(a, b) ==
    IF Len(a) + Len(b) = 0 THEN 100
    ELSE (200 * LcsLength(a, b)) \div (Len(a) + Len(b))

\* sim = fuzz.ratio(wn, target) if HAS_FUZZ else fuzzy_similarity(wn, target)
similarity(has_fuzz, wn, target) ==
    IF has_fuzz THEN fuzz_ratio(wn, target) ELSE fuzzy_similarity(wn, target)

FUZZY_THRESHOLD == 88

(***************************************************************************)
(* The inputs: dictionaries and cleaned texts                              *)
(***************************************************************************)

w_il       == <<"I","L">>
w_two      == <<"2">>
w_antiil   == <<"a","n","t","i","-","I","L","-","2">>
w_note     == <<"n","o","t","e">>
w_notes    == <<"n","o","t","e","s">>
w_noting   == <<"n","o","t","i","n","g">>
w_section  == <<"s","e","c","t","i","o","n">>
w_sections == <<"s","e","c","t","i","o","n","s">>
w_sectio   == <<"s","e","c","t","i","o">>
w_allele   == <<"a","l","l","e","l","e">>
w_alelele  == <<"a","l","e","l","e","l","e">>

\* The words a text is made of.
Vocabulary == {w_antiil, w_notes, w_section, w_sections, w_alelele}

\* At most this many words in a text.
MaxWords == 2

\* The cleaned texts: words separated by single spaces.
Texts ==
    {JoinWords(ws) : ws \in UNION {[1..n -> Vocabulary] : n \in 1..MaxWords}}

\* The term lists a category of dictionary.json may hold, in file order.
TermLists ==
    { <<w_two, w_il>>,
      <<w_antiil>>,
      <<w_note>>,
      <<w_noting>>,
      <<w_sections>>,
      <<w_section, JoinWords(<<w_notes, w_section>>)>>,
      <<w_allele, w_sectio>> }

\* dictionary.json: one or two categories, in load order.
Dictionaries ==
    {<<[category |-> "A", terms |-> a]>> : a \in TermLists}
    \cup {<<[category |-> "A", terms |-> a], [category |-> "B", terms |-> b]>> :
              a \in TermLists, b \in TermLists}

(***************************************************************************)
(* State                                                                   *)
(***************************************************************************)

VARIABLES
    variant,        \* "v2": annotate_doccano_v2.py, "copy": annotate_doccano_v2 copy.py
    HAS_FUZZ,       \* whether rapidfuzz could be imported
    CATEGORIES,     \* load_categories(): the dictionary, in load order
    PRECOMPILED,    \* per category the (term, pattern) pairs, longest term first
    pc,             \* where the program is
    text,           \* the argument of annotate_text
    words_unique,   \* the fuzzy candidate pool
    annotations,    \* the [start, end, category] triples accepted so far
    used_spans,     \* the occupied intervals
    ci, ti,         \* the category and the term being processed
    matches,        \* what pattern.finditer(text) has still to yield
    matched_here,   \* whether the exact pass accepted a span for this term
    wi,             \* the word of words_unique the fuzzy loop is at
    accepted_by,    \* history: for each annotation, the term and pass it came from
    arg,            \* the argument of a pure function under check
    results         \* its successive results

vars ==
    <<variant, HAS_FUZZ, CATEGORIES, PRECOMPILED, pc, text, words_unique,
      annotations, used_spans, ci, ti, matches, matched_here, wi, accepted_by,
      arg, results>>

call_locals ==
    <<text, words_unique, annotations, used_spans, ci, ti, matches,
      matched_here, wi, accepted_by>>

globals == <<variant, HAS_FUZZ, CATEGORIES, arg, results>>

(***************************************************************************)
(* Module import: PRECOMPILED                                              *)
(***************************************************************************)

MIN_TERM_LEN == 2

\* [t for t in terms if cond(t)]
RECURSIVE FilterTerms(_, _)
FilterTerms(terms, minlen) ==
    IF terms = << >> THEN << >>
    ELSE IF Len(terms[1]) >= minlen
         THEN <<terms[1]>> \o FilterTerms(Tail(terms), minlen)
         ELSE FilterTerms(Tail(terms), minlen)

\* Insert t into a list sorted by decreasing length, after the terms that
\* are at least as long (the sort is stable).
RECURSIVE InsertByLen(_, _)
InsertByLen(sorted, t) ==
    IF sorted = << >> THEN <<t>>
    ELSE IF Len(sorted[1]) >= Len(t)
         THEN <<sorted[1]>> \o InsertByLen(Tail(sorted), t)
         ELSE <<t>> \o sorted

\* sorted(terms, key=lambda x: len(x), reverse=True)
RECURSIVE SortFrom(_, _, _)
SortFrom(terms, i, acc) ==
    IF i > Len(terms) THEN acc
    ELSE SortFrom(terms, i + 1, InsertByLen(acc, terms[i]))

terms_sorted(terms) == SortFrom(terms, 1, << >>)

\* The terms of one category that get a pattern: v2 drops the terms shorter
\* than MIN_TERM_LEN; the copy variant keeps every term.
filtered_terms(v, terms) ==
    IF v = "copy" THEN terms ELSE FilterTerms(terms, MIN_TERM_LEN)

\* The loop that fills PRECOMPILED.
precompile(v, categories) ==
    [c \in 1..Len(categories) |->
        LET ts == terms_sorted(filtered_terms(v, categories[c].terms))
        IN  [category |-> categories[c].category,
             term_list |-> [k \in 1..Len(ts) |->
                               [term |-> ts[k],
                                pattern |-> build_flexible_pattern(v, ts[k])]]]]

Precompile ==
    /\ pc = "import"
    /\ PRECOMPILED' = precompile(variant, CATEGORIES)
    /\ pc' = "idle"
    /\ UNCHANGED <<globals, call_locals>>

(***************************************************************************)
(* annotate_text                                                           *)
(***************************************************************************)

MIN_FUZZY_LEN == 6

\* len(wn) < 3 of the copy variant's fuzzy loop.
MIN_FUZZY_WORD_LEN_COPY == 3

\* any(s <= span_range[0] < e or s < span_range[1] <= e for s, e in used_spans)
overlaps_used(span_range, used) ==
    \E u \in used :
        \/ u[1] <= span_range[1] /\ span_range[1] < u[2]
        \/ u[1] < span_range[2] /\ span_range[2] <= u[2]

\* The test an exact match has to pass after the overlap test.
exact_accepts(v, matched_word, original_term) ==
    IF v = "copy"
    THEN lightweight_lemma(matched_word) = lightweight_lemma(original_term)
    ELSE lower(matched_word) = lower(original_term)

\* The fuzzy pass without its "not matched_here" condition.
fuzzy_runs_always(v, matched, original_term) ==
    IF v = "copy" THEN TRUE
    ELSE Len(original_term) >= MIN_FUZZY_LEN

\* Whether the fuzzy pass runs for the term.
fuzzy_runs(v, matched, original_term) ==
    IF v = "copy" THEN ~matched
    ELSE ~matched /\ Len(original_term) >= MIN_FUZZY_LEN

term_count(c) == Len(PRECOMPILED[c].term_list)
cur == PRECOMPILED[ci].term_list[ti]

no_locals ==
    /\ text = << >>
    /\ words_unique = << >>
    /\ annotations = << >>
    /\ used_spans = {}
    /\ ci = 0
    /\ ti = 0
    /\ matches = << >>
    /\ matched_here = FALSE
    /\ wi = 0
    /\ accepted_by = << >>

\* process_*: text_clean = clean_text(text); annotate_text(text_clean)
CallAnnotate ==
    /\ pc = "idle"
    /\ \E t \in Texts :
        /\ text' = t
        /\ words_unique' = words_unique_of(variant, t)
    /\ annotations' = << >>
    /\ used_spans' = {}
    /\ accepted_by' = << >>
    /\ ci' = 1
    /\ ti' = 1
    /\ pc' = "term"
    /\ UNCHANGED <<globals, PRECOMPILED, matches, matched_here, wi>>

\* The head of the two for loops: the next (term, pattern) pair of the
\* category, or the next category, or the end of the loops.
NextTerm ==
    /\ pc = "term"
    /\ IF ci > Len(PRECOMPILED)
       THEN /\ pc' = "return"
            /\ UNCHANGED <<ci, ti, matches, matched_here>>
       ELSE IF ti > term_count(ci)
       THEN /\ ci' = ci + 1
            /\ ti' = 1
            /\ pc' = "term"
            /\ UNCHANGED <<matches, matched_here>>
       ELSE /\ matched_here' = FALSE
            /\ matches' = finditer(cur.pattern, text, 0)
            /\ pc' = "exact"
            /\ UNCHANGED <<ci, ti>>
    /\ UNCHANGED <<globals, PRECOMPILED, text, words_unique, annotations,
                   used_spans, wi, accepted_by>>

\* One iteration of "for match in pattern.finditer(text)".
ExactMatch ==
    /\ pc = "exact"
    /\ matches # << >>
    /\ LET span_range == matches[1]
           matched_word == Slice(text, span_range[1], span_range[2])
       IN  IF /\ ~overlaps_used(span_range, used_spans)
              /\ exact_accepts(variant, matched_word, cur.term)
           THEN /\ annotations' =
                       Append(annotations,
                              <<span_range[1], span_range[2], PRECOMPILED[ci].category>>)
                /\ used_spans' = used_spans \cup {span_range}
                /\ matched_here' = TRUE
                /\ accepted_by' =
                       Append(accepted_by, [c |-> ci, t |-> ti, pass |-> "exact"])
           ELSE UNCHANGED <<annotations, used_spans, matched_here, accepted_by>>
    /\ matches' = Tail(matches)
    /\ UNCHANGED <<globals, PRECOMPILED, pc, text, words_unique, ci, ti, wi>>

\* The end of the exact loop: "if not matched_here ...".
ExactDone ==
    /\ pc = "exact"
    /\ matches = << >>
    /\ IF fuzzy_runs(variant, matched_here, cur.term)
       THEN /\ pc' = "fuzzy"
            /\ wi' = 1
            /\ UNCHANGED ti
       ELSE /\ pc' = "term"
            /\ ti' = ti + 1
            /\ UNCHANGED wi
    /\ UNCHANGED <<globals, PRECOMPILED, text, words_unique, annotations,
                   used_spans, ci, matches, matched_here, accepted_by>>

\* What one iteration of "for w in words_unique" does with the word w:
\* whether it appends a span, which one, and whether it leaves the loop.
fuzzy_step_v2(has_fuzz, txt, used, original_term, w) ==
    LET target == normalize_text_for_matching(original_term)
        lemma_target == lightweight_lemma(target)
        wn == normalize_text_for_matching(w)
        idx == find(lower(txt), lower(w))
        span_range == <<idx, idx + Len(w)>>
    IN  IF Len(w) < MIN_FUZZY_LEN
        THEN [append |-> FALSE, span |-> span_range, stop |-> FALSE]
        ELSE IF overlaps_used(span_range, used)
        THEN [append |-> FALSE, span |-> span_range, stop |-> FALSE]
        ELSE IF lightweight_lemma(wn) = lemma_target
        THEN [append |-> FALSE, span |-> span_range, stop |-> FALSE]
        ELSE IF similarity(has_fuzz, wn, target) >= FUZZY_THRESHOLD
        THEN [append |-> TRUE, span |-> span_range, stop |-> TRUE]
        ELSE [append |-> FALSE, span |-> span_range, stop |-> FALSE]

fuzzy_step_copy(has_fuzz, txt, used, original_term, w) ==
    LET target == normalize_text_for_matching(original_term)
        lemma_target == lightweight_lemma(target)
        wn == normalize_text_for_matching(w)
        idx == find(lower(txt), lower(w))
        span_range == <<idx, idx + Len(w)>>
    IN  IF Len(wn) < MIN_FUZZY_WORD_LEN_COPY
        THEN [append |-> FALSE, span |-> span_range, stop |-> FALSE]
        ELSE IF lightweight_lemma(wn) = lemma_target
        THEN [append |-> FALSE, span |-> span_range, stop |-> FALSE]
        ELSE IF similarity(has_fuzz, wn, target) >= FUZZY_THRESHOLD
        THEN IF idx # -1
             THEN IF overlaps_used(span_range, used)
                  THEN [append |-> FALSE, span |-> span_range, stop |-> FALSE]
                  ELSE [append |-> TRUE, span |-> span_range, stop |-> TRUE]
             ELSE [append |-> FALSE, span |-> span_range, stop |-> TRUE]
        ELSE [append |-> FALSE, span |-> span_range, stop |-> FALSE]

fuzzy_step(v, has_fuzz, txt, used, original_term, w) ==
    IF v = "copy" THEN fuzzy_step_copy(has_fuzz, txt, used, original_term, w)
    ELSE fuzzy_step_v2(has_fuzz, txt, used, original_term, w)

\* One iteration of the fuzzy loop.
FuzzyWord ==
    /\ pc = "fuzzy"
    /\ wi <= Len(words_unique)
    /\ LET r == fuzzy_step(variant, HAS_FUZZ, text, used_spans, cur.term,
                           words_unique[wi])
       IN  /\ IF r.append
              THEN /\ annotations' =
                          Append(annotations,
                                 <<r.span[1], r.span[2], PRECOMPILED[ci].category>>)
                   /\ used_spans' = used_spans \cup {r.span}
                   /\ accepted_by' =
                          Append(accepted_by, [c |-> ci, t |-> ti, pass |-> "fuzzy"])
              ELSE UNCHANGED <<annotations, used_spans, accepted_by>>
           /\ IF r.stop
              THEN /\ pc' = "term"
                   /\ ti' = ti + 1
                   /\ UNCHANGED wi
              ELSE /\ wi' = wi + 1
                   /\ UNCHANGED <<pc, ti>>
    /\ UNCHANGED <<globals, PRECOMPILED, text, words_unique, ci, matches,
                   matched_here>>

\* The fuzzy loop runs out of words.
FuzzyDone ==
    /\ pc = "fuzzy"
    /\ wi > Len(words_unique)
    /\ pc' = "term"
    /\ ti' = ti + 1
    /\ UNCHANGED <<globals, PRECOMPILED, text, words_unique, annotations,
                   used_spans, ci, matches, matched_here, wi, accepted_by>>

\* return annotations: the caller writes the record and goes on to the
\* next chunk.
Return ==
    /\ pc = "return"
    /\ pc' = "idle"
    /\ text' = << >>
    /\ words_unique' = << >>
    /\ annotations' = << >>
    /\ used_spans' = {}
    /\ ci' = 0
    /\ ti' = 0
    /\ matches' = << >>
    /\ matched_here' = FALSE
    /\ wi' = 0
    /\ accepted_by' = << >>
    /\ UNCHANGED <<globals, PRECOMPILED>>

Init ==
    /\ variant \in {"v2", "copy"}
    /\ HAS_FUZZ \in BOOLEAN
    /\ CATEGORIES \in Dictionaries
    /\ PRECOMPILED = << >>
    /\ pc = "import"
    /\ no_locals
    /\ arg = << >>
    /\ results = << >>

Next ==
    \/ Precompile
    \/ CallAnnotate
    \/ NextTerm
    \/ ExactMatch
    \/ ExactDone
    \/ FuzzyWord
    \/ FuzzyDone
    \/ Return

Spec == Init /\ [][Next]_vars

(***************************************************************************)
(* Properties of annotate_text                                             *)
(***************************************************************************)

\* Whether two half-open intervals share a character index.
Intersect(a1, a2, b1, b2) == a1 < b2 /\ b1 < a2

\* The term that produced the i-th annotation.
TermOf(i) == PRECOMPILED[accepted_by[i].c].term_list[accepted_by[i].t].term

\* The surface the i-th annotation covers.
SurfaceOf(i) == Slice(text, annotations[i][1], annotations[i][2])

\* A verbatim (case-insensitive) whole-word occurrence of term at position p.
WholeWordAt(term, p) ==
    /\ OccursAt(lower(text), lower(term), p)
    /\ NoWordBehind(text, p)
    /\ NoWordAhead(text, p + Len(term))

\* C1: at every step of the accumulation the accepted spans are pairwise
\* non-overlapping: no character index belongs to two of them.
C1_NonOverlapping ==
    \A i, j \in 1..Len(annotations) :
        i # j => ~Intersect(annotations[i][1], annotations[i][2],
                            annotations[j][1], annotations[j][2])

\* The head of the finditer matches is a candidate the exact pass is about
\* to look at; it is free when it shares no character with an occupied span.
HeadSurface == Slice(text, matches[1][1], matches[1][2])
HeadFree ==
    \A u \in used_spans : ~Intersect(matches[1][1], matches[1][2], u[1], u[2])
HeadAccepted ==
    /\ annotations' =
           Append(annotations, <<matches[1][1], matches[1][2], PRECOMPILED[ci].category>>)
    /\ used_spans' = used_spans \cup {matches[1]}

\* C2: in the exact pass, for a term that gets the suffix group,
\* every match whose surface has the same lightweight lemma as the term and
\* whose interval overlaps no occupied interval is accepted (a span is
\* appended and the interval marked occupied), in both variants.
C2_SameLemmaAccepted ==
    [][(/\ pc = "exact"
        /\ matches # << >>
        /\ cur.pattern.suffix
        /\ lightweight_lemma(HeadSurface) = lightweight_lemma(cur.term)
        /\ HeadFree)
       => HeadAccepted]_vars

\* C3: in the copy variant a term of the generic-exclusion list never
\* yields a span over a suffixed form of itself, by either pass.
C3_GenericTermNoSuffixedSpan ==
    variant = "copy" =>
        \A i \in 1..Len(annotations) :
            lower(TermOf(i)) \in EXCLUDE_SUFFIX_TERMS =>
                ~\E k \in 1..Len(PATTERN_SUFFIXES) :
                    lower(SurfaceOf(i)) = lower(TermOf(i)) \o PATTERN_SUFFIXES[k]

\* The spans accepted while the terms before term t of category c were
\* processed.
AcceptedBefore(c, t) ==
    {i \in 1..Len(accepted_by) :
        \/ accepted_by[i].c < c
        \/ accepted_by[i].c = c /\ accepted_by[i].t < t}

\* C4: when a longer and a shorter term of one category both occur verbatim
\* as whole words with overlapping intervals, and no span accepted earlier
\* overlaps either occurrence, the returned spans contain the longer term's
\* interval and no span over the shorter term's occurrence.
C4_LongerTermWins ==
    pc = "return" =>
        \A c \in 1..Len(PRECOMPILED) :
          \A tl, ts \in 1..Len(PRECOMPILED[c].term_list) :
            LET L == PRECOMPILED[c].term_list[tl].term
                S == PRECOMPILED[c].term_list[ts].term
            IN  Len(L) > Len(S) =>
                \A p, q \in 0..Len(text) :
                    (/\ WholeWordAt(L, p)
                     /\ WholeWordAt(S, q)
                     /\ Intersect(p, p + Len(L), q, q + Len(S))
                     /\ \A i \in AcceptedBefore(c, tl) :
                          /\ ~Intersect(annotations[i][1], annotations[i][2], p, p + Len(L))
                          /\ ~Intersect(annotations[i][1], annotations[i][2], q, q + Len(S)))
                    => /\ \E i \in 1..Len(annotations) :
                            annotations[i] = <<p, p + Len(L), PRECOMPILED[c].category>>
                       /\ ~\E i \in 1..Len(annotations) :
                            /\ annotations[i][1] = q
                            /\ annotations[i][2] = q + Len(S)

WordQualifies ==
    similarity(HAS_FUZZ, normalize_text_for_matching(words_unique[wi]),
               normalize_text_for_matching(cur.term)) >= FUZZY_THRESHOLD

MIN_TERM_LEN_COPY == 3

\* C6: a term shorter than the minimum term length (2 in v2, 3 in the copy
\* variant) is excluded from matching: no span is produced by that term.
C6_ShortTermNoSpan ==
    \A i \in 1..Len(accepted_by) :
        Len(TermOf(i)) >= (IF variant = "copy" THEN MIN_TERM_LEN_COPY ELSE MIN_TERM_LEN)

\* C10: the fuzzy loop does the same with every word whether the score
\* comes from rapidfuzz or from the difflib fallback, the two scores being
\* on the same side of the threshold.
C10_BackendsAgree ==
    (pc = "fuzzy" /\ wi <= Len(words_unique)) =>
        fuzzy_step(variant, TRUE, text, used_spans, cur.term, words_unique[wi])
        = fuzzy_step(variant, FALSE, text, used_spans, cur.term, words_unique[wi])

\* C11: in annotate_doccano_v2.py a term of PRECOMPILED (length at least
\* MIN_TERM_LEN) that occurs verbatim, up to case, as a whole word or word
\* sequence, the occurrence sharing no character with a span accepted before
\* the term was processed, has a returned span over exactly that occurrence
\* with the term's category.
C11_VerbatimOccurrenceKept ==
    (pc = "return" /\ variant = "v2") =>
        \A c \in 1..Len(PRECOMPILED) :
          \A t \in 1..Len(PRECOMPILED[c].term_list) :
            LET T == PRECOMPILED[c].term_list[t].term
            IN  \A p \in 0..Len(text) :
                    (/\ Len(T) >= MIN_TERM_LEN
                     /\ WholeWordAt(T, p)
                     /\ \A i \in AcceptedBefore(c, t) :
                            ~Intersect(annotations[i][1], annotations[i][2],
                                       p, p + Len(T)))
                    => \E i \in 1..Len(annotations) :
                           annotations[i] = <<p, p + Len(T), PRECOMPILED[c].category>>

\* C12: every accepted span, of the exact pass or of the fuzzy pass, lies
\* within the text, is not empty and is aligned to a whole word: the
\* character before its start and the character at its end, if any, are
\* not word characters.
C12_SpansAreWholeWords ==
    \A i \in 1..Len(annotations) :
        /\ 0 <= annotations[i][1]
        /\ annotations[i][1] < annotations[i][2]
        /\ annotations[i][2] <= Len(text)
        /\ NoWordBehind(text, annotations[i][1])
        /\ NoWordAhead(text, annotations[i][2])

(***************************************************************************)
(* lightweight_lemma on its own                                            *)
(***************************************************************************)

\* A pure function is applied to arg, then to its own result, this many times.
MaxApply == 2

\* At most this many suffixes of suf_list follow a stem in a word.
MaxSuffixes == 2

Stems ==
    { << >>, <<"o">>, <<"O","n">>, <<"N","o","t">>,
      <<"p","r","o","c","e","s","s">> }

\* The concatenation of the suffixes suf_list[ks[1]], suf_list[ks[2]], ...
RECURSIVE SuffixChain(_)
SuffixChain(ks) ==
    IF ks = << >> THEN << >> ELSE suf_list[ks[1]] \o SuffixChain(Tail(ks))

\* The words: a stem followed by up to MaxSuffixes suffixes.
LemmaWords ==
    {stem \o SuffixChain(ks) :
        stem \in Stems,
        ks \in UNION {[1..n -> 1..Len(suf_list)] : n \in 0..MaxSuffixes}}

idle_annotator ==
    /\ variant = "v2"
    /\ HAS_FUZZ = FALSE
    /\ CATEGORIES = << >>
    /\ PRECOMPILED = << >>
    /\ no_locals

InitLemma ==
    /\ idle_annotator
    /\ pc = "lemma"
    /\ arg \in LemmaWords
    /\ results = << >>

\* lightweight_lemma(arg), then lightweight_lemma of the result.
ApplyLemma ==
    /\ pc = "lemma"
    /\ Len(results) < MaxApply
    /\ results' =
           Append(results,
                  lightweight_lemma(IF results = << >> THEN arg
                                    ELSE results[Len(results)]))
    /\ UNCHANGED <<variant, HAS_FUZZ, CATEGORIES, PRECOMPILED, pc, call_locals, arg>>

SpecLemma == InitLemma /\ [][ApplyLemma]_vars

\* C7: lightweight_lemma is idempotent: lemma(lemma(w)) = lemma(w).
C7_LemmaIdempotent ==
    (pc = "lemma" /\ Len(results) >= 2) => results[2] = results[1]

\* The suffixes the lower-cased word w ends with, as indices of suf_list.
EndingSuffixes(w) ==
    {k \in 1..Len(suf_list) :
        /\ Len(suf_list[k]) <= Len(w)
        /\ \A i \in 1..Len(suf_list[k]) :
               w[Len(w) - Len(suf_list[k]) + i] = suf_list[k][i]}

Least(S) == CHOOSE k \in S : \A m \in S : k <= m

\* C8 as claimed: the lower-cased word loses the first suffix of the list it
\* ends with, provided the remaining root is longer than that suffix by more
\* than 2 characters; in every other case it is returned unchanged.
C8_FirstSuffixRootGuard ==
    (pc = "lemma" /\ Len(results) >= 1) =>
        LET w == lower(arg)
            E == EndingSuffixes(w)
            n == IF E = {} THEN 0 ELSE Len(suf_list[Least(E)])
        IN  results[1] =
                IF E # {} /\ (Len(w) - n) > n + 2
                THEN [i \in 1..(Len(w) - n) |-> w[i]]
                ELSE w

\* C8 as amended: the lower-cased word loses the first suffix of the list
\* that it ends with and that is shorter than the word by more than 2
\* characters (the remaining root has more than 2 characters); in every
\* other case it is returned unchanged.
C8_Amended ==
    (pc = "lemma" /\ Len(results) >= 1) =>
        LET w == lower(arg)
            G == {k \in EndingSuffixes(w) : Len(w) - Len(suf_list[k]) > 2}
            n == IF G = {} THEN 0 ELSE Len(suf_list[Least(G)])
        IN  results[1] = [i \in 1..(Len(w) - n) |-> w[i]]

\* C8's case: a suffix was stripped although an earlier suffix of the list
\* also ends the word (the earlier one leaves too short a root), from a word
\* that is not in lower case.
C8_Witness ==
    /\ pc = "lemma"
    /\ Len(results) >= 1
    /\ \E k \in EndingSuffixes(lower(arg)) :
           /\ Len(results[1]) = Len(arg) - Len(suf_list[k])
           /\ k # Least(EndingSuffixes(lower(arg)))
    /\ arg # lower(arg)

(***************************************************************************)
(* clean_text on its own.  The characters that matter are named:           *)
(* BOM U+FEFF, ZWSP U+200B, NBSP U+00A0, TAB U+0009, LDQUO U+201C,         *)
(* RDQUO U+201D, EMDASH U+2014, FWHYPHEN U+FF0D (fullwidth hyphen-minus,   *)
(* which NFKC turns into "-"), QUOTE U+0022.                               *)
(***************************************************************************)

\* text.replace(old, new) for a one-character old; new is a string.
RECURSIVE replace(_, _, _)
replace(str, old, new) ==
    IF str = << >> THEN << >>
    ELSE (IF str[1] = old THEN new ELSE <<str[1]>>) \o replace(Tail(str), old, new)

\* unicodedata.normalize('NFKC', text) on the alphabet of the model: the
\* compatibility characters become their plain counterparts.
NFKC(str) == replace(replace(str, "FWHYPHEN", <<"-">>), "NBSP", <<" ">>)

\* re.sub(r'\s*-\s*', '-', text) from position p on: a hyphen takes the
\* whitespace run before it and the one after it with it.
RECURSIVE SubHyphen(_, _)
SubHyphen(str, p) ==
    IF p >= Len(str) THEN << >>
    ELSE LET n == SpacesFrom(str, p)
         IN  IF p + n < Len(str) /\ str[p + n + 1] = "-"
             THEN <<"-">> \o SubHyphen(str, p + n + 1 + SpacesFrom(str, p + n + 1))
             ELSE <<str[p + 1]>> \o SubHyphen(str, p + 1)

\* re.sub(r'\s+', ' ', text) from position p on.
RECURSIVE SubSpaces(_, _)
SubSpaces(str, p) ==
    IF p >= Len(str) THEN << >>
    ELSE LET n == SpacesFrom(str, p)
         IN  IF n > 0 THEN <<" ">> \o SubSpaces(str, p + n)
             ELSE <<str[p + 1]>> \o SubSpaces(str, p + 1)

\* The number of whitespace characters at the end of the string.
RECURSIVE SpacesAtEnd(_)
SpacesAtEnd(str) ==
    IF str # << >> /\ IsSpace(str[Len(str)])
    THEN 1 + SpacesAtEnd(Slice(str, 0, Len(str) - 1))
    ELSE 0

\* str.strip()
strip(str) == Slice(str, SpacesFrom(str, 0), Len(str) - SpacesAtEnd(str))

\* The same steps with the hyphen substitution done before the dashes are
\* unified.
clean_text_dash_late(str) ==
    LET t1 == replace(replace(replace(str, "BOM", << >>), "ZWSP", << >>), "NBSP", <<" ">>)
        t2 == NFKC(t1)
        t3 == replace(replace(t2, "LDQUO", <<"QUOTE">>), "RDQUO", <<"QUOTE">>)
        t4 == SubHyphen(t3, 0)
        t5 == replace(t4, "EMDASH", <<"-">>)
        t6 == SubSpaces(t5, 0)
    IN  strip(t6)

clean_text(str) ==
    LET t1 == replace(replace(replace(str, "BOM", << >>), "ZWSP", << >>), "NBSP", <<" ">>)
        t2 == NFKC(t1)
        t3 == replace(replace(replace(t2, "LDQUO", <<"QUOTE">>), "RDQUO", <<"QUOTE">>),
                      "EMDASH", <<"-">>)
        t4 == SubHyphen(t3, 0)
        t5 == SubSpaces(t4, 0)
    IN  strip(t5)

\* The characters of a raw text.
RawAlphabet ==
    {"a", "-", " ", "TAB", "NBSP", "ZWSP", "BOM", "LDQUO", "EMDASH", "FWHYPHEN"}

\* At most this many characters in a raw text.
MaxRawLen == 3

RawTexts == UNION {[1..n -> RawAlphabet] : n \in 0..MaxRawLen}

InitClean ==
    /\ idle_annotator
    /\ pc = "clean"
    /\ arg \in RawTexts
    /\ results = << >>

\* clean_text(arg), then clean_text of the result.
ApplyClean ==
    /\ pc = "clean"
    /\ Len(results) < MaxApply
    /\ results' =
           Append(results,
                  clean_text(IF results = << >> THEN arg ELSE results[Len(results)]))
    /\ UNCHANGED <<variant, HAS_FUZZ, CATEGORIES, PRECOMPILED, pc, call_locals, arg>>

SpecClean == InitClean /\ [][ApplyClean]_vars

\* The characters clean_text removes or replaces.
CleanedAway ==
    {"BOM", "ZWSP", "NBSP", "TAB", "LDQUO", "RDQUO", "EMDASH", "FWHYPHEN"}

\* C9: clean_text is idempotent, and its output holds no whitespace next to
\* a hyphen, no run of two whitespace characters, no leading or trailing
\* whitespace and none of the characters the transform removes or replaces.
C9_CleanIdempotent ==
    /\ (pc = "clean" /\ Len(results) >= 2) => results[2] = results[1]
    /\ (pc = "clean" /\ Len(results) >= 1) =>
          LET out == results[1]
          IN  /\ \A i \in 1..Len(out) : out[i] \notin CleanedAway
              /\ \A i \in 1..(Len(out) - 1) :
                    /\ ~(IsSpace(out[i]) /\ IsSpace(out[i + 1]))
                    /\ ~(IsSpace(out[i]) /\ out[i + 1] = "-")
                    /\ ~(out[i] = "-" /\ IsSpace(out[i + 1]))
              /\ out # << >> => ~IsSpace(out[1]) /\ ~IsSpace(out[Len(out)])

\* C9's case: a text with whitespace around a dash was cleaned, and the
\* result cleaned again.
C9_Witness ==
    /\ pc = "clean"
    /\ Len(results) = 2
    /\ Len(arg) = 3
    /\ IsSpace(arg[1])
    /\ arg[2] = "EMDASH"
    /\ arg[3] = "a"
    /\ results[1] = <<"-", "a">>

=============================================================================
